---- MODULE Spec2Model ----
(***************************************************************************)
(* Render session controller of the Cycles hosts: the embedding adapter    *)
(* (src/app/cycles_ios.cpp) and the standalone command-line host           *)
(* (src/app/cycles_standalone.cpp).                                        *)
(*                                                                         *)
(* Both hosts keep one process-wide `options` object.  A process is one of *)
(* the two hosts (each translation unit defines its own `options`), built  *)
(* with or without WITH_OSL and WITH_CYCLES_STANDALONE_GUI.                *)
(*                                                                         *)
(* Values passed through to the engine and never inspected by the          *)
(* controller (threads, tile size, profiling) are not represented.         *)
(***************************************************************************)
EXTENDS Integers, Sequences, FiniteSets, TLC

VARIABLES
  host,      \* "ios" (embedding adapter) or "standalone"
  build,     \* compile-time switches: [osl, gui]
  available, \* device types Device::available_devices can enumerate
  options,   \* the global `options` object
  sessions,  \* every Session object constructed so far, by address 1..n
  live,      \* addresses of the Sessions constructed and not yet deleted
  deletes,   \* number of `delete options.session` executed
  fault,     \* a null or deleted Session was dereferenced or deleted
  proc,      \* the process: [status, code]
  pc,        \* position of the control thread
  err,       \* last message written to stderr
  call,      \* the last entry point invoked and its arguments
  ncalls,    \* number of embedding-API calls made so far
  maxlen,    \* session_print's `static int maxlen`
  lines,     \* what session_print wrote to the terminal, call by call
  thr        \* the engine threads inside session_print_status / session_print

vars == <<host, build, available, options, sessions, live, deletes, fault,
          proc, pc, err, call, ncalls, maxlen, lines, thr>>

(* The state of the status sink and of the threads writing to it.          *)
reporting == <<maxlen, lines, thr>>

(* Bound on the number of embedding-API calls the host application makes.  *)
MaxCalls == 3

NULL == 0

(* Requested (width, height) pairs; <<1024, 512>> is the standalone        *)
(* default and 0 means "derive from the scene".                            *)
Dims == {<<1024, 512>>, <<0, 0>>, <<800, 600>>, <<800, 0>>, <<0, 600>>}
(* Resolutions a scene file can give the camera.                           *)
CameraDims == {<<1920, 1080>>, <<640, 480>>}
(* What the scene reader can make of the file: a scene whose camera has    *)
(* resolution res, or a parse error.                                       *)
SceneReads ==
  {[result |-> "ok", res |-> r] : r \in CameraDims}
    \cup {[result |-> "error", res |-> <<0, 0>>]}
SampleCounts == {-1, 0, 1024}
FilePaths == {"", "scene.xml"}
OutputPaths == {"", "out.png"}

(* ---------------------------------------------------------------------- *)
(* The global `options` after static initialisation: zero-initialised      *)
(* scalars, empty strings, default-constructed SessionParams (1024         *)
(* samples, not background), DeviceInfo (CPU) and SceneParams (SVM).       *)
OptionsStatic ==
  [session |-> NULL, filepath |-> "", width |-> 0, height |-> 0,
   quiet |-> FALSE, samples |-> 1024, background |-> FALSE,
   device |-> "CPU", shadingsystem |-> "SVM",
   output_filepath |-> "", output_pass |-> ""]

(* Device::available_devices(DEVICE_MASK(type)): the devices of one type.  *)
available_devices(type) ==
  IF type \in available THEN <<type>> ELSE <<>>

(* Device::type_from_string: DEVICE_NONE for a name that is no type.       *)
type_from_string(name) ==
  IF name \in {"CPU", "METAL"} THEN name ELSE "NONE"

Running == [status |-> "running", code |-> 0]
Exited(c) == [status |-> "exited", code |-> c]

(* ---------------------------------------------------------------------- *)
(* validate_options: the first failing check, or "ok".  Every failure      *)
(* calls exit(EXIT_FAILURE).                                               *)
validate_options(o) ==
  IF o.device = "NONE" THEN "Unknown device"
  ELSE IF o.samples < 0 THEN "Invalid number of samples"
  ELSE IF o.filepath = "" THEN "No file path specified"
  ELSE "ok"

(* new Session(session_params, scene_params): a fresh object whose scene   *)
(* has a camera and no passes, with no driver and no callback.  The        *)
(* record keeps the width and height requested at construction and the     *)
(* controller's steps on the session, in order.  Its progress is the       *)
(* fraction done in hundredths of a percent, the status texts, and the     *)
(* number of the update that wrote them.                                   *)
NewSession(o) ==
  [samples |-> o.samples, background |-> o.background, device |-> o.device,
   shadingsystem |-> o.shadingsystem,
   display_driver |-> FALSE, output_driver |-> "none", driver_pass |-> "",
   callback |-> "none",
   requested |-> <<o.width, o.height>>, read |-> "none",
   loaded |-> <<0, 0>>, camera |-> <<0, 0>>, passes |-> <<>>,
   buffer |-> <<0, 0, 0, 0>>, job |-> "created", events |-> <<"new">>,
   progress |-> [fraction |-> 0, status |-> "", substatus |-> "",
                 version |-> 0]]

(* session_buffer_params: width, height, full_width, full_height.          *)
session_buffer_params(o) ==
  <<o.width, o.height, o.width, o.height>>

(* ReconcileCamera overriding as soon as one requested dimension is        *)
(* nonzero.                                                                *)
ReconcileCamera_either(o, s) ==
  IF ~(o.width = 0 /\ o.height = 0)
  THEN <<o, [s EXCEPT !.camera = <<o.width, o.height>>,
                      !.events = Append(@, "reconcile")]>>
  ELSE <<[o EXCEPT !.width = s.camera[1], !.height = s.camera[2]],
         [s EXCEPT !.events = Append(@, "reconcile")]>>

(* Camera width/height override: both requested dimensions nonzero         *)
(* overwrite the camera, otherwise the options take the camera's.          *)
(* Result: <<options, session>>.                                           *)
ReconcileCamera(o, s) ==
  IF ~(o.width = 0 \/ o.height = 0)
  THEN <<o, [s EXCEPT !.camera = <<o.width, o.height>>,
                      !.events = Append(@, "reconcile")]>>
  ELSE <<[o EXCEPT !.width = s.camera[1], !.height = s.camera[2]],
         [s EXCEPT !.events = Append(@, "reconcile")]>>

(* The call of the scene reader, whose outcome rd the controller does not  *)
(* look at: a parsed file fills the scene and gives the camera its         *)
(* resolution, a parse error leaves the scene as constructed.              *)
ReadScene(s, rd) ==
  IF rd.result = "ok"
  THEN [s EXCEPT !.read = "ok", !.loaded = rd.res, !.camera = rd.res,
                 !.events = Append(@, "read")]
  ELSE [s EXCEPT !.read = "error", !.loaded = s.camera,
                 !.events = Append(@, "read")]

(* camera->compute_auto_viewplane()                                        *)
ComputeViewplane(s) ==
  [s EXCEPT !.events = Append(@, "viewplane")]

(* create_node<Pass>() and set_type(COMBINED), the name left unset.        *)
CreatePass_unnamed(o, s) ==
  [s EXCEPT !.passes = Append(@, [name |-> "", type |-> "COMBINED"]),
            !.events = Append(@, "pass")]

(* scene->create_node<Pass>(), set_name(output_pass), set_type(COMBINED)   *)
CreatePass(o, s) ==
  [s EXCEPT !.passes = Append(@, [name |-> o.output_pass, type |-> "COMBINED"]),
            !.events = Append(@, "pass")]

(* session->reset(session_params, session_buffer_params())                 *)
ResetSession(o, s) ==
  [s EXCEPT !.buffer = session_buffer_params(o), !.events = Append(@, "reset")]

(* session->start(): launches the job and returns.                         *)
StartSession(s) ==
  [s EXCEPT !.job = "running", !.events = Append(@, "start")]

(* session->set_output_driver(OIIOOutputDriver(output_filepath,            *)
(* output_pass, session_print)) when an output path was given.             *)
AttachOutputDriver(o, s) ==
  IF o.output_filepath # ""
  THEN [s EXCEPT !.output_driver = "file", !.driver_pass = o.output_pass,
                 !.events = Append(@, "output_driver")]
  ELSE s

(* progress.set_update_callback(session_print_status) when running         *)
(* background and not quiet.                                               *)
AttachStatusCallback(o, s) ==
  IF o.background /\ ~o.quiet
  THEN [s EXCEPT !.callback = "session_print_status",
                 !.events = Append(@, "callback")]
  ELSE s

(* Session::wait returns once the job of session s has finished.           *)
WaitReturns(s) == s.job = "finished"

(* ---------------------------------------------------------------------- *)
(* The status sink                                                         *)
(* ---------------------------------------------------------------------- *)

(* The engine threads that write to the status sink: the one running the   *)
(* progress callback and the one running the file driver's log callback.   *)
Threads == {"reporter", "driver"}

(* A thread outside the callbacks, having entered them `runs` times.       *)
Idle(runs) ==
  [pc |-> "idle", runs |-> runs, of |-> NULL, fraction |-> 0, fver |-> 0,
   sver |-> 0, text |-> "", m |-> 0, at |-> 0]

Digit(d) == <<"0", "1", "2", "3", "4", "5", "6", "7", "8", "9">>[d + 1]

RECURSIVE Decimal(_)
(* %d of a natural number.                                                 *)
Decimal(n) ==
  IF n < 10 THEN Digit(n) ELSE Decimal(n \div 10) \o Digit(n % 10)

(* %05.2f of h hundredths: two decimals, zero-padded to five characters.   *)
FormatPercent(h) ==
  LET body == Decimal(h \div 100) \o "." \o Digit((h % 100) \div 10)
                \o Digit(h % 10)
  IN IF Len(body) < 5 THEN "0" \o body ELSE body

(* The line session_print_status builds:                                   *)
(* "Progress %05.2f   %s" of progress * 100 and status[: substatus].       *)
status_line(fraction, status, substatus) ==
  "Progress " \o FormatPercent(fraction) \o "   "
    \o (IF substatus # "" THEN status \o ": " \o substatus ELSE status)

(* maxlen = len: the tracked length follows the last line.                *)
print_max_last(len, ml) == len

(* maxlen = max(len, maxlen)                                               *)
print_max(len, ml) == IF len > ml THEN len ELSE ml

(* The spaces written by a loop running to i <= maxlen.                    *)
print_pad_inclusive(len, ml) == IF ml >= len THEN ml - len + 1 ELSE 0

(* The spaces written by `for (i = len; i < maxlen; i++) printf(" ")`.     *)
print_pad(len, ml) == IF ml > len THEN ml - len ELSE 0

(* One record of `lines`, a finished call of session_print: the text, the  *)
(* spaces after it, and for a status line the progress updates its         *)
(* fraction and its status text came from.                                 *)
Emitted(text, pad, by, fver, sver) ==
  [text |-> text, pad |-> pad, flushed |-> TRUE, by |-> by, fver |-> fver,
   sver |-> sver]

(* The record of a call of session_print that has written its text and     *)
(* not yet its spaces.                                                     *)
Written(text, by, fver, sver) ==
  [Emitted(text, 0, by, fver, sver) EXCEPT !.flushed = FALSE]

(* ---------------------------------------------------------------------- *)
(* The embedding adapter                                                   *)
(* ---------------------------------------------------------------------- *)

(* The parameters a host application passes to cycles_ios_initialize.      *)
CyclesInitParams ==
  [dims : Dims, filepath : FilePaths, samples : SampleCounts,
   shading_system : {"svm", "osl"}, background : BOOLEAN, quiet : BOOLEAN]

(* cycles_ios_initialize from `new Session` to start(), on the Session at  *)
(* address id; rd is what the scene reader makes of the file.             *)
(* Result: <<options, session>>.                                           *)
ios_start_session(o, id, rd) ==
  LET o1 == [o EXCEPT !.output_pass = "combined", !.session = id]
      s1 == AttachStatusCallback(o1, AttachOutputDriver(o1, NewSession(o1)))
      s2 == ReadScene(s1, rd)
      r  == ReconcileCamera(o1, s2)
      s3 == ComputeViewplane(r[2])
      s4 == CreatePass(r[1], s3)
      s5 == ResetSession(r[1], s4)
  IN  <<r[1], StartSession(s5)>>

(* The options as cycles_ios_initialize fills them from the parameters.    *)
ios_set_options(o, p) ==
  [o EXCEPT !.width = p.dims[1], !.height = p.dims[2],
            !.filepath = p.filepath, !.quiet = p.quiet,
            !.samples = p.samples, !.background = p.background]

(* cycles_ios_initialize(params), the scene reader giving rd.             *)
ios_initialize(p, rd) ==
  /\ call' = [op |-> "initialize", args |-> p]
  /\ ncalls' = ncalls + 1
  /\ UNCHANGED <<host, build, available, deletes, fault, pc, reporting>>
  /\ LET v == validate_options(options)
         o1 == ios_set_options(options, p)
         devices == available_devices("METAL")
     IN IF v # "ok"
        THEN /\ proc' = Exited(1)
             /\ err' = v
             /\ UNCHANGED <<options, sessions, live>>
        ELSE IF devices = <<>>
        THEN /\ options' = o1
             /\ err' = "No matching device found"
             /\ UNCHANGED <<proc, sessions, live>>
        ELSE LET o2 == [o1 EXCEPT !.device = Head(devices),
                          !.shadingsystem =
                             IF p.shading_system = "osl" THEN "OSL" ELSE "SVM"]
             IN IF build.osl /\ o2.shadingsystem = "OSL" /\ o2.device # "CPU"
                THEN /\ options' = o2
                     /\ err' = "OSL shading system only works with CPU device"
                     /\ UNCHANGED <<proc, sessions, live>>
                ELSE LET id == Len(sessions) + 1
                         r  == ios_start_session(o2, id, rd)
                     IN /\ options' = r[1]
                        /\ sessions' = Append(sessions, r[2])
                        /\ live' = live \cup {id}
                        /\ UNCHANGED <<proc, err>>

(* The host application calls cycles_ios_initialize.                       *)
cycles_ios_initialize ==
  /\ host = "ios" /\ proc.status = "running" /\ ncalls < MaxCalls
  /\ \E p \in CyclesInitParams, rd \in SceneReads : ios_initialize(p, rd)

(* cycles_ios_render(): wait() on the session if there is one.  The call   *)
(* returns once the job has finished; a deleted session is a fault.        *)
cycles_ios_render ==
  /\ host = "ios" /\ proc.status = "running" /\ ncalls < MaxCalls
  /\ IF options.session = NULL THEN TRUE
     ELSE IF options.session \in live
          THEN WaitReturns(sessions[options.session])
          ELSE TRUE
  /\ fault' = (fault \/ (options.session # NULL /\ options.session \notin live))
  /\ call' = [op |-> "render", args |-> <<>>]
  /\ ncalls' = ncalls + 1
  /\ UNCHANGED <<host, build, available, options, sessions, live, deletes,
                 proc, pc, err, reporting>>

(* The heap as disposal sees it: the session pointer, the live Sessions,   *)
(* the deletions made and whether one of them hit a dead object.           *)
Heap ==
  [ptr |-> options.session, live |-> live, deletes |-> deletes,
   fault |-> fault]

(* DisposeSession that deletes and forgets to reset the pointer.           *)
DisposeSession_keep_pointer(h) ==
  IF h.ptr # NULL
  THEN [ptr |-> h.ptr, live |-> h.live \ {h.ptr}, deletes |-> h.deletes + 1,
        fault |-> (h.fault \/ h.ptr \notin h.live)]
  ELSE h

(* if (options.session) { delete options.session; options.session = NULL } *)
DisposeSession(h) ==
  IF h.ptr # NULL
  THEN [ptr |-> NULL, live |-> h.live \ {h.ptr}, deletes |-> h.deletes + 1,
        fault |-> (h.fault \/ h.ptr \notin h.live)]
  ELSE h

(* cycles_ios_cleanup()                                                    *)
cycles_ios_cleanup ==
  /\ host = "ios" /\ proc.status = "running" /\ ncalls < MaxCalls
  /\ LET h == DisposeSession(Heap)
     IN /\ options' = [options EXCEPT !.session = h.ptr]
        /\ live' = h.live
        /\ deletes' = h.deletes
        /\ fault' = h.fault
  /\ call' = [op |-> "cleanup", args |-> <<>>]
  /\ ncalls' = ncalls + 1
  /\ UNCHANGED <<host, build, available, sessions, proc, pc, err, reporting>>

(* ---------------------------------------------------------------------- *)
(* The standalone host                                                     *)
(* ---------------------------------------------------------------------- *)

(* scene_init computing the viewplane before the reconciliation.           *)
scene_init_viewplane_first(o, s, rd) ==
  LET s1 == ComputeViewplane(ReadScene(s, rd))
  IN  ReconcileCamera(o, s1)

(* scene_init: read the scene, reconcile the resolution, recompute the     *)
(* viewplane.  Result: <<options, session>>.                               *)
scene_init(o, s, rd) ==
  LET s1 == ReadScene(s, rd)
      r  == ReconcileCamera(o, s1)
  IN  <<r[1], ComputeViewplane(r[2])>>

(* set_display_driver(OpenGLDisplayDriver) in a GUI build when not         *)
(* running background.                                                     *)
AttachDisplayDriver(o, s) ==
  IF build.gui /\ ~o.background
  THEN [s EXCEPT !.display_driver = TRUE,
                 !.events = Append(@, "display_driver")]
  ELSE s

(* The progress callback of session_init: the textual reporter when        *)
(* background and not quiet, else window_redraw in a GUI build.            *)
AttachProgressCallback(o, s) ==
  IF o.background /\ ~o.quiet
  THEN AttachStatusCallback(o, s)
  ELSE IF build.gui
       THEN [s EXCEPT !.callback = "window_redraw",
                      !.events = Append(@, "callback")]
       ELSE s

(* session_init keeping the new Session in a local variable, so that       *)
(* options.session is not set.                                             *)
session_init_local(o, id, rd) ==
  LET o1 == [o EXCEPT !.output_pass = "combined"]
      s1 == AttachDisplayDriver(o1, NewSession(o1))
      s2 == AttachProgressCallback(o1, AttachOutputDriver(o1, s1))
      r  == scene_init(o1, s2, rd)
      s3 == CreatePass(r[1], r[2])
      s4 == ResetSession(r[1], s3)
  IN  <<r[1], StartSession(s4)>>

(* session_init on the Session at address id.  Result: <<options, session>> *)
session_init(o, id, rd) ==
  LET o1 == [o EXCEPT !.output_pass = "combined", !.session = id]
      s1 == AttachDisplayDriver(o1, NewSession(o1))
      s2 == AttachProgressCallback(o1, AttachOutputDriver(o1, s1))
      r  == scene_init(o1, s2, rd)
      s3 == CreatePass(r[1], r[2])
      s4 == ResetSession(r[1], s3)
  IN  <<r[1], StartSession(s4)>>

(* session_exit that resets the pointer and forgets to delete.             *)
session_exit_leak(h) == [h EXCEPT !.ptr = NULL]

(* session_exit: dispose the session.                                      *)
session_exit(h) == DisposeSession(h)

(* A command line, as ArgParse leaves it in the parser's variables.  The   *)
(* --shadingsys option exists only in a WITH_OSL build.                    *)
CommandLines ==
  [list : BOOLEAN, version : BOOLEAN, help : BOOLEAN,
   filepath : FilePaths, devicename : {"CPU", "METAL", "bogus"},
   ssname : {"svm", "osl", "foo"}, background : BOOLEAN, quiet : BOOLEAN,
   samples : SampleCounts, output : OutputPaths, dims : Dims]

DefaultWidth == 1024
DefaultHeight == 512

(* The options at the head of options_parse.                               *)
options_defaults(o) ==
  [o EXCEPT !.width = DefaultWidth, !.height = DefaultHeight,
            !.filepath = "", !.session = NULL, !.quiet = FALSE]

(* The options after ap.parse stored command line a.                       *)
options_parsed(o, a) ==
  [options_defaults(o) EXCEPT
     !.filepath = a.filepath, !.width = a.dims[1], !.height = a.dims[2],
     !.quiet = a.quiet, !.samples = a.samples,
     !.background = a.background, !.output_filepath = a.output]

(* The options after the shading system, the background default and the    *)
(* device were resolved.                                                   *)
options_resolved(o, a) ==
  LET devices == available_devices(type_from_string(a.devicename))
  IN [o EXCEPT
        !.shadingsystem = IF a.ssname = "osl" THEN "OSL"
                          ELSE IF a.ssname = "svm" THEN "SVM" ELSE @,
        !.background = IF build.gui THEN @ ELSE TRUE,
        !.device = IF devices # <<>> THEN Head(devices) ELSE @]

(* options_invalid without the check of the sample count.                  *)
options_invalid_no_samples(o, a) ==
  LET device_available ==
        available_devices(type_from_string(a.devicename)) # <<>>
  IN IF o.device = "NONE" \/ ~device_available THEN "Unknown device"
     ELSE IF build.osl /\ ~(a.ssname = "osl" \/ a.ssname = "svm")
          THEN "Unknown shading system"
     ELSE IF build.osl /\ o.shadingsystem = "OSL" /\ o.device # "CPU"
          THEN "OSL shading system only works with CPU device"
     ELSE IF o.filepath = "" THEN "No file path specified"
     ELSE "ok"

(* "handle invalid configurations": the first failing check of             *)
(* options_parse, or "ok".  Every failure calls exit(EXIT_FAILURE).        *)
options_invalid(o, a) ==
  LET device_available ==
        available_devices(type_from_string(a.devicename)) # <<>>
  IN IF o.device = "NONE" \/ ~device_available THEN "Unknown device"
     ELSE IF build.osl /\ ~(a.ssname = "osl" \/ a.ssname = "svm")
          THEN "Unknown shading system"
     ELSE IF build.osl /\ o.shadingsystem = "OSL" /\ o.device # "CPU"
          THEN "OSL shading system only works with CPU device"
     ELSE IF o.samples < 0 THEN "Invalid number of samples"
     ELSE IF o.filepath = "" THEN "No file path specified"
     ELSE "ok"

(* options_parse on a command line a that ArgParse accepts.                *)
parse_command_line(a) ==
  /\ build.osl \/ a.ssname = "svm"
  /\ call' = [op |-> "main", args |-> a]
  /\ UNCHANGED <<host, build, available, sessions, live, deletes, fault,
                 ncalls, reporting>>
  /\ LET o1 == options_parsed(options, a)
         o2 == options_resolved(o1, a)
         v  == options_invalid(o2, a)
     IN IF a.list \/ a.version \/ a.help \/ o1.filepath = ""
        THEN /\ options' = o1
             /\ proc' = Exited(0)
             /\ pc' = "exited"
             /\ UNCHANGED err
        ELSE IF v # "ok"
        THEN /\ options' = o2
             /\ proc' = Exited(1)
             /\ pc' = "exited"
             /\ err' = v
        ELSE /\ options' = o2
             /\ pc' = "parsed"
             /\ UNCHANGED <<proc, err>>

(* main calls options_parse on some command line.                          *)
options_parse ==
  /\ host = "standalone" /\ proc.status = "running" /\ pc = "start"
  /\ \E a \in CommandLines : parse_command_line(a)

(* main on a command line ArgParse rejects: usage and exit(EXIT_FAILURE).  *)
options_parse_error ==
  /\ host = "standalone" /\ proc.status = "running" /\ pc = "start"
  /\ call' = [op |-> "main_usage", args |-> <<>>]
  /\ options' = options_defaults(options)
  /\ proc' = Exited(1)
  /\ pc' = "exited"
  /\ err' = "usage"
  /\ UNCHANGED <<host, build, available, sessions, live, deletes, fault,
                 ncalls, reporting>>

(* The state session_init leaves, the control thread moving on to `next`.  *)
RunSessionInit(rd, next) ==
  LET id == Len(sessions) + 1
      r  == session_init(options, id, rd)
  IN /\ options' = r[1]
     /\ sessions' = Append(sessions, r[2])
     /\ live' = live \cup {id}
     /\ pc' = next
     /\ UNCHANGED <<host, build, available, deletes, fault, proc, err, call,
                    ncalls, reporting>>

(* The state session_exit leaves, main then returning 0: the session is   *)
(* disposed of (its threads have left the callbacks by then) and, when     *)
(* background and not quiet, "Finished Rendering." is printed.             *)
RunSessionExit ==
  LET h == session_exit(Heap)
      text == "Finished Rendering."
      ml == print_max(Len(text), maxlen)
  IN /\ \A t \in Threads : thr[t].pc = "idle"
     /\ options' = [options EXCEPT !.session = h.ptr]
     /\ live' = h.live
     /\ deletes' = h.deletes
     /\ fault' = h.fault
     /\ proc' = Exited(0)
     /\ pc' = "exited"
     /\ IF options.background /\ ~options.quiet
        THEN /\ maxlen' = ml
             /\ lines' = Append(lines, Emitted(text, print_pad(Len(text), ml),
                                               "main", 0, 0))
        ELSE UNCHANGED <<maxlen, lines>>
     /\ UNCHANGED <<host, build, available, sessions, err, call, ncalls, thr>>

(* main, background: session_init()                                        *)
main_session_init ==
  /\ host = "standalone" /\ proc.status = "running" /\ pc = "parsed"
  /\ ~build.gui \/ options.background
  /\ \E rd \in SceneReads : RunSessionInit(rd, "wait")

(* main going on to session_exit without waiting for the job.              *)
main_no_wait ==
  /\ host = "standalone" /\ proc.status = "running" /\ pc = "wait"
  /\ pc' = "exit"
  /\ UNCHANGED <<host, build, available, options, sessions, live, deletes,
                 fault, proc, err, call, ncalls, reporting>>

(* main, background: options.session->wait()                              *)
main_wait ==
  /\ host = "standalone" /\ proc.status = "running" /\ pc = "wait"
  /\ WaitReturns(sessions[options.session])
  /\ pc' = "exit"
  /\ UNCHANGED <<host, build, available, options, sessions, live, deletes,
                 fault, proc, err, call, ncalls, reporting>>

(* main, background: session_exit(); return 0                              *)
main_session_exit ==
  /\ host = "standalone" /\ proc.status = "running" /\ pc = "exit"
  /\ RunSessionExit

(* main, interactive: window_main_loop calls session_init ...              *)
window_session_init ==
  /\ host = "standalone" /\ proc.status = "running" /\ pc = "parsed"
  /\ build.gui /\ ~options.background
  /\ \E rd \in SceneReads : RunSessionInit(rd, "loop")

(* ... and session_exit when the window closes; main returns 0.            *)
window_session_exit ==
  /\ host = "standalone" /\ proc.status = "running" /\ pc = "loop"
  /\ RunSessionExit

(* The engine's workers, all outside the callbacks, finish the job of a    *)
(* live session.                                                           *)
JobFinish ==
  /\ proc.status = "running"
  /\ \A t \in Threads : thr[t].pc = "idle"
  /\ \E id \in live :
       /\ sessions[id].job = "running"
       /\ sessions' = [sessions EXCEPT ![id].job = "finished"]
  /\ UNCHANGED <<host, build, available, options, live, deletes, fault,
                 proc, pc, err, call, ncalls, reporting>>

(* ---------------------------------------------------------------------- *)
(* The engine's threads while a job runs                                   *)
(* ---------------------------------------------------------------------- *)

(* Bounds on the progress updates of a job and on the invocations of the   *)
(* progress callback.                                                      *)
MaxUpdates == 2
MaxReports == 2

(* The progress a worker can report: fraction (hundredths of a percent),   *)
(* status and sub-status.                                                  *)
ProgressUpdates ==
  {[fraction |-> 100, status |-> "Rendering", substatus |-> ""],
   [fraction |-> 5000, status |-> "Done", substatus |-> ""],
   [fraction |-> 5000, status |-> "Rendering", substatus |-> "Tile 2/4"],
   [fraction |-> 10000, status |-> "Done", substatus |-> ""]}

(* A worker of a running job writes its progress: fraction, status and     *)
(* sub-status of one update, the fraction never decreasing.                *)
ProgressWrite ==
  /\ proc.status = "running"
  /\ \E id \in live, u \in ProgressUpdates :
       /\ sessions[id].job = "running"
       /\ sessions[id].progress.version < MaxUpdates
       /\ u.fraction >= sessions[id].progress.fraction
       /\ sessions' = [sessions EXCEPT ![id].progress =
                         [fraction |-> u.fraction, status |-> u.status,
                          substatus |-> u.substatus, version |-> @.version + 1]]
  /\ UNCHANGED <<host, build, available, options, live, deletes, fault,
                 proc, pc, err, call, ncalls, reporting>>

(* options.session is null or points to a deleted Session.                 *)
BadSession == options.session = NULL \/ options.session \notin live

(* A running job that has progress to report invokes the registered        *)
(* session_print_status, which first reads                                 *)
(* options.session->progress.get_progress().                               *)
status_read_progress ==
  /\ proc.status = "running"
  /\ thr["reporter"].pc = "idle" /\ thr["reporter"].runs < MaxReports
  /\ \E id \in live :
       /\ sessions[id].job = "running"
       /\ sessions[id].callback = "session_print_status"
       /\ sessions[id].progress.version > 0
       /\ IF BadSession
          THEN /\ fault' = TRUE
               /\ thr' = [thr EXCEPT !["reporter"] = Idle(@.runs + 1)]
          ELSE /\ thr' = [thr EXCEPT !["reporter"] =
                           [@ EXCEPT !.pc = "status", !.of = id,
                              !.fraction =
                                 sessions[options.session].progress.fraction,
                              !.fver =
                                 sessions[options.session].progress.version]]
               /\ UNCHANGED fault
  /\ UNCHANGED <<host, build, available, options, sessions, live, deletes,
                 proc, pc, err, call, ncalls, maxlen, lines>>

(* session_print_status: options.session->progress.get_status(status,      *)
(* substatus), the line is built and handed to session_print.              *)
status_read_status ==
  /\ proc.status = "running"
  /\ thr["reporter"].pc = "status"
  /\ IF BadSession
     THEN /\ fault' = TRUE
          /\ thr' = [thr EXCEPT !["reporter"] = Idle(@.runs + 1)]
     ELSE LET pr == sessions[options.session].progress
          IN /\ thr' = [thr EXCEPT !["reporter"] =
                          [@ EXCEPT !.pc = "print", !.sver = pr.version,
                             !.text = status_line(thr["reporter"].fraction,
                                                  pr.status, pr.substatus)]]
             /\ UNCHANGED fault
  /\ UNCHANGED <<host, build, available, options, sessions, live, deletes,
                 proc, pc, err, call, ncalls, maxlen, lines>>

(* The file output driver of a running job reports through its log         *)
(* callback, session_print.                                                *)
driver_log ==
  /\ proc.status = "running"
  /\ thr["driver"].pc = "idle" /\ thr["driver"].runs = 0
  /\ \E id \in live :
       /\ sessions[id].job = "running"
       /\ sessions[id].output_driver = "file"
       /\ thr' = [thr EXCEPT !["driver"] =
                    [@ EXCEPT !.pc = "print", !.of = id,
                       !.text = "Writing image " \o options.output_filepath]]
  /\ UNCHANGED <<host, build, available, options, sessions, live, deletes,
                 fault, proc, pc, err, call, ncalls, maxlen, lines>>

(* session_print in thread t: printf("\r%s"), len = str.size(), and the    *)
(* value of max(len, maxlen).                                              *)
print_line(t) ==
  /\ proc.status = "running"
  /\ thr[t].pc = "print"
  /\ lines' = Append(lines, Written(thr[t].text, t, thr[t].fver,
                                    thr[t].sver))
  /\ thr' = [thr EXCEPT ![t] =
               [@ EXCEPT !.pc = "store", !.at = Len(lines) + 1,
                         !.m = print_max(Len(thr[t].text), maxlen)]]
  /\ UNCHANGED <<host, build, available, options, sessions, live, deletes,
                 fault, proc, pc, err, call, ncalls, maxlen>>

(* session_print in thread t: the store to maxlen.                         *)
print_store(t) ==
  /\ proc.status = "running"
  /\ thr[t].pc = "store"
  /\ maxlen' = thr[t].m
  /\ thr' = [thr EXCEPT ![t].pc = "pad"]
  /\ UNCHANGED <<host, build, available, options, sessions, live, deletes,
                 fault, proc, pc, err, call, ncalls, lines>>

(* session_print in thread t: the spaces up to maxlen, and fflush.         *)
print_flush(t) ==
  /\ proc.status = "running"
  /\ thr[t].pc = "pad"
  /\ lines' = [lines EXCEPT ![thr[t].at] =
                   Emitted(thr[t].text, print_pad(Len(thr[t].text), maxlen),
                           t, thr[t].fver, thr[t].sver)]
  /\ thr' = [thr EXCEPT ![t] = Idle(@.runs + 1)]
  /\ UNCHANGED <<host, build, available, options, sessions, live, deletes,
                 fault, proc, pc, err, call, ncalls, maxlen>>

(* ---------------------------------------------------------------------- *)

Init ==
  /\ host \in {"ios", "standalone"}
  /\ build \in [osl : BOOLEAN, gui : BOOLEAN]
  /\ host = "ios" => ~build.gui
  /\ available \in {{"CPU"}, {"CPU", "METAL"}}
  /\ options = OptionsStatic
  /\ sessions = <<>>
  /\ live = {}
  /\ deletes = 0
  /\ fault = FALSE
  /\ proc = Running
  /\ pc = IF host = "ios" THEN "idle" ELSE "start"
  /\ err = ""
  /\ call = [op |-> "none", args |-> <<>>]
  /\ ncalls = 0
  /\ maxlen = 0
  /\ lines = <<>>
  /\ thr = [t \in Threads |-> Idle(0)]

Next ==
  \/ cycles_ios_initialize
  \/ cycles_ios_render
  \/ cycles_ios_cleanup
  \/ options_parse
  \/ options_parse_error
  \/ main_session_init
  \/ main_wait
  \/ main_session_exit
  \/ window_session_init
  \/ window_session_exit
  \/ JobFinish

Spec == Init /\ [][Next]_vars

(* A background render of the standalone host with its engine threads.     *)
BackgroundCommandLines ==
  {[list |-> FALSE, version |-> FALSE, help |-> FALSE,
    filepath |-> "scene.xml", devicename |-> "CPU", ssname |-> "svm",
    background |-> TRUE, quiet |-> q, samples |-> 1024, output |-> out,
    dims |-> <<DefaultWidth, DefaultHeight>>] :
     q \in BOOLEAN, out \in OutputPaths}

(* main calls options_parse on the command line of a background render.    *)
options_parse_background ==
  /\ host = "standalone" /\ proc.status = "running" /\ pc = "start"
  /\ \E a \in BackgroundCommandLines : parse_command_line(a)

InitReport == Init /\ host = "standalone"

(* The progress callback is the only engine thread writing to the sink.    *)
NextSerial ==
  \/ options_parse_background
  \/ main_session_init
  \/ main_wait
  \/ main_session_exit
  \/ JobFinish
  \/ ProgressWrite
  \/ status_read_progress
  \/ status_read_status
  \/ print_line("reporter")
  \/ print_store("reporter")
  \/ print_flush("reporter")

SpecSerial == InitReport /\ [][NextSerial]_vars

(* The progress callback and the file driver's log callback both write.    *)
NextReport ==
  \/ NextSerial
  \/ driver_log
  \/ print_line("driver")
  \/ print_store("driver")
  \/ print_flush("driver")

SpecReport == InitReport /\ [][NextReport]_vars

(* Both hosts: the embedding adapter's entry points, and a background      *)
(* render of the standalone host with its engine threads.                  *)
NextHosts ==
  \/ NextReport
  \/ cycles_ios_initialize
  \/ cycles_ios_render
  \/ cycles_ios_cleanup

SpecHosts == Init /\ [][NextHosts]_vars

(* ---------------------------------------------------------------------- *)
(* Properties                                                              *)
(* ---------------------------------------------------------------------- *)

(* The command line asks for help, the version or the device list, or      *)
(* names no file: options_parse leaves before it validates.                *)
LeavesEarly(a) == a.list \/ a.version \/ a.help \/ a.filepath = ""

(* C1, standalone host: once options_parse stored a negative sample count  *)
(* the process has ended without a Session, and with status 1 unless the   *)
(* command line left before validation.                                    *)
C1_StandaloneNegativeSamples ==
  (host = "standalone" /\ call.op = "main" /\ options.samples < 0)
    => /\ sessions = <<>>
       /\ proc.status = "exited"
       /\ ~LeavesEarly(call.args) => (proc.code = 1 /\ err # "")

(* C1, embedding adapter: a call of cycles_ios_initialize with a negative  *)
(* sample count constructs no Session, whatever the state before it.       *)
C1_IosNegativeSamples ==
  (host = "ios" /\ ncalls' = ncalls + 1 /\ call'.op = "initialize"
     /\ call'.args.samples < 0)
    => (sessions' = sessions /\ live' = live)

ValidParams(p) ==
  /\ p.filepath # ""
  /\ p.samples >= 0
  /\ "METAL" \in available
  /\ ~(build.osl /\ p.shading_system = "osl")

(* C2: on a fresh process a first cycles_ios_initialize with valid         *)
(* parameters is not rejected and leaves a started job on a live session   *)
(* that options.session points to.                                         *)
C2_FirstInitializeStarts ==
  (host = "ios" /\ ncalls = 1 /\ call.op = "initialize"
     /\ ValidParams(call.args))
    => /\ proc.status = "running"
       /\ options.session # NULL
       /\ options.session \in live
       /\ sessions[options.session].job \in {"running", "finished"}

(* C3: in the embedding adapter a validation failure (no device, negative  *)
(* sample count, empty file path) returns to the caller: the process is    *)
(* not terminated and no Session was allocated.                            *)
C3_ValidationFailureReturns ==
  (host = "ios" /\ call.op = "initialize"
     /\ (call.args.filepath = "" \/ call.args.samples < 0
           \/ "METAL" \notin available))
    => /\ proc.status = "running"
       /\ sessions = <<>>
       /\ options.session = NULL

(* C4: when no device of the requested category is available,              *)
(* cycles_ios_initialize (on a request with nothing else wrong) reports    *)
(* it and returns with no session, so that render and cleanup can follow   *)
(* as no-ops.                                                              *)
C4_NoDeviceSafe ==
  (host = "ios" /\ call.op = "initialize" /\ "METAL" \notin available
     /\ call.args.filepath # "" /\ call.args.samples >= 0)
    => /\ proc.status = "running"
       /\ err = "No matching device found"
       /\ options.session = NULL
       /\ live = {}

(* C5: from every reachable state, disposing twice leaves what disposing   *)
(* once leaves (a null pointer and no live session), deletes at most one   *)
(* session and hits no dead object.                                        *)
C5_CleanupIdempotent ==
  LET h1 == DisposeSession(Heap)
      h2 == DisposeSession(h1)
  IN /\ h2 = h1
     /\ h1.ptr = NULL
     /\ h1.live = {}
     /\ ~h2.fault
     /\ h2.deletes <= deletes + 1

(* C5 witness: a session was constructed and disposed of.                  *)
C5_Witness ==
  /\ sessions # <<>> /\ deletes = 1
  /\ options.session = NULL /\ live = {}

Controller == <<options, sessions, live, deletes, fault, proc>>

(* C7, embedding adapter: a call of cycles_ios_render changes nothing, and *)
(* with an active session it returns only once the job has finished.       *)
C7_RenderStep ==
  (host = "ios" /\ ncalls' = ncalls + 1 /\ call'.op = "render")
    => /\ Controller' = Controller
       /\ options.session # NULL => WaitReturns(sessions[options.session])

(* C7, standalone host: wait returns only once the job has finished, and   *)
(* changes nothing.                                                        *)
C7_WaitStep ==
  (host = "standalone" /\ pc = "wait" /\ pc' # "wait")
    => /\ Controller' = Controller
       /\ WaitReturns(sessions[options.session])

(* C7, standalone host: past wait the job is finished.                     *)
C7_PastWait ==
  (host = "standalone" /\ pc = "exit")
    => WaitReturns(sessions[options.session])

C8_ExitStatus ==
  (host = "standalone" /\ call.op = "main" /\ proc.status = "exited")
    => LET a == call.args
           informational == a.list \/ a.version \/ a.help
       IN /\ informational => proc.code = 0
          /\ sessions # <<>> => proc.code = 0
          /\ (~informational /\ a.filepath = "") => proc.code = 1
          /\ (~informational /\ a.filepath # "" /\ sessions = <<>>)
               => proc.code = 1

(* The sessions whose job was started.                                     *)
Started == {i \in 1..Len(sessions) : sessions[i].job # "created"}

(* C9: for a started session, if the requested width and height are both   *)
(* nonzero the camera and the session resolution are exactly the request;  *)
(* otherwise the camera keeps the loaded resolution and the session takes  *)
(* it.  The buffer handed to reset has width = full width = session width  *)
(* and height = full height = session height.                              *)
C9_Reconciliation ==
  \A i \in Started :
    LET s == sessions[i]
        res == IF s.requested[1] # 0 /\ s.requested[2] # 0
               THEN s.requested ELSE s.loaded
    IN /\ s.camera = res
       /\ s.buffer = <<res[1], res[2], res[1], res[2]>>
       /\ i = Len(sessions) => <<options.width, options.height>> = res

(* C9 witness: a session was started with one requested dimension zero on  *)
(* a scene of 1920x1080.                                                   *)
C9_Witness ==
  \E i \in Started :
    /\ sessions[i].requested = <<800, 0>>
    /\ sessions[i].loaded = <<1920, 1080>>
    /\ sessions[i].buffer = <<1920, 1080, 1920, 1080>>

(* The places of step e in the step list ev.                               *)
Places(ev, e) == {k \in 1..Len(ev) : ev[k] = e}

(* Step e1 happened once, step e2 happened once, and e1 came first.        *)
Before(ev, e1, e2) ==
  /\ Cardinality(Places(ev, e1)) = 1
  /\ Cardinality(Places(ev, e2)) = 1
  /\ \A k1 \in Places(ev, e1), k2 \in Places(ev, e2) : k1 < k2

(* C10: for a started session the scene was read before the resolution     *)
(* was reconciled, the viewplane was computed after the reconciliation     *)
(* and before the buffer reset, the output pass was created before the     *)
(* reset, and the reset came before start.  No session has a viewplane     *)
(* computed before its reconciliation.                                     *)
C10_InitOrdering ==
  /\ \A i \in Started :
       LET ev == sessions[i].events
       IN /\ Before(ev, "read", "reconcile")
          /\ Before(ev, "reconcile", "viewplane")
          /\ Before(ev, "viewplane", "reset")
          /\ Before(ev, "pass", "reset")
          /\ Before(ev, "reset", "start")
  /\ \A i \in 1..Len(sessions) :
       LET ev == sessions[i].events
       IN \A k \in Places(ev, "viewplane") :
            \E j \in Places(ev, "reconcile") : j < k

(* C10 witness: a session is running, start being its last step.           *)
C10_Witness ==
  \E i \in Started :
    /\ sessions[i].job = "running"
    /\ sessions[i].events[Len(sessions[i].events)] = "start"

(* C11: a session whose scene failed to parse has neither its buffers      *)
(* reset nor its job started.                                              *)
C11_ParseFailureAborts ==
  \A i \in 1..Len(sessions) :
    sessions[i].read = "error"
      => /\ sessions[i].job = "created"
         /\ Places(sessions[i].events, "reset") = {}
         /\ Places(sessions[i].events, "start") = {}

(* C12: no session holds both a display driver and a file driver; the      *)
(* file driver is attached when an output path was given, else the         *)
(* display driver when not running background, else none.                  *)
C12_AtMostOneDriver ==
  \A i \in 1..Len(sessions) :
    LET s == sessions[i]
    IN /\ ~(s.display_driver /\ s.output_driver = "file")
       /\ s.output_driver = "file" <=> options.output_filepath # ""
       /\ s.display_driver
            <=> (options.output_filepath = "" /\ ~s.background /\ build.gui)

(* C13: a session's progress callback is the textual reporter exactly      *)
(* when running background and not quiet, the redraw trigger only when     *)
(* not running background, and none for a background and quiet run.       *)
C13_CallbackSelection ==
  \A i \in 1..Len(sessions) :
    LET s == sessions[i]
    IN /\ s.callback = "session_print_status"
            <=> (s.background /\ ~options.quiet)
       /\ s.callback = "window_redraw" => ~s.background
       /\ (s.background /\ options.quiet) => s.callback = "none"

(* The lengths of the first k lines written to the status sink.            *)
LineLengths(k) == {Len(lines[j].text) : j \in 1..k}

Longest(S) == IF S = {} THEN 0 ELSE CHOOSE m \in S : \A n \in S : n <= m

(* The lengths of the lines whose session_print has stored maxlen.         *)
Tracked ==
  {Len(lines[k].text) :
     k \in {j \in 1..Len(lines) :
              \A t \in Threads : ~(thr[t].pc = "store" /\ thr[t].at = j)}}

(* Every line whose spaces are written fills, with them, the length of     *)
(* the longest line written up to it.                                      *)
PaddedToLongest ==
  \A k \in 1..Len(lines) :
    lines[k].flushed
      => Len(lines[k].text) + lines[k].pad = Longest(LineLengths(k))

(* C14: with one caller of session_print at a time, maxlen never           *)
(* decreases, equals the length of the longest line printed so far, and    *)
(* each line is followed by exactly maxlen - length spaces.                *)
C14_OverwritePadding ==
  /\ [](/\ PaddedToLongest
        /\ maxlen = Longest(Tracked))
  /\ [][maxlen' >= maxlen]_vars

(* A shorter line was written after a longer one and padded.               *)
C14_Witness ==
  \E k \in 2..Len(lines) :
    /\ Len(lines[k].text) < Len(lines[k - 1].text)
    /\ lines[k].flushed /\ lines[k].pad > 0

(* The status lines of the reporter scenario have been printed, the first  *)
(* two of the process.                                                     *)
C15_Scenario ==
  /\ Len(lines) >= 2
  /\ lines[1].text = "Progress 01.00   Rendering"
  /\ lines[2].text = "Progress 50.00   Done"
  /\ lines[2].flushed

C15_AfterBoth == Len(lines) = 2 /\ thr["reporter"].pc = "idle"

(* C15 as stated: the first line has 26 characters, the second 22 and is   *)
(* padded with 4 spaces, and maxlen after both prints is 26.               *)
C15_ScenarioAsStated ==
  C15_Scenario
    => /\ Len(lines[1].text) = 26
       /\ Len(lines[2].text) = 22
       /\ lines[2].pad = 4
       /\ C15_AfterBoth => maxlen = 26

(* C15 amended: the first line has 26 characters, the second 21 and is     *)
(* padded with 5 spaces, and maxlen after both prints is 26.               *)
C15_ScenarioAmended ==
  C15_Scenario
    => /\ Len(lines[1].text) = 26
       /\ Len(lines[2].text) = 21
       /\ lines[2].pad = 5
       /\ C15_AfterBoth => maxlen = 26

C15_Witness == C15_Scenario /\ C15_AfterBoth

(* C16: the fraction and the status text of every printed status line      *)
(* come from one and the same progress update.                             *)
C16_ConsistentSnapshot ==
  \A k \in 1..Len(lines) :
    lines[k].by = "reporter" => lines[k].fver = lines[k].sver

(* C17: with the progress callback and the file driver's log callback      *)
(* both calling session_print, every line is padded to the longest line    *)
(* written up to it and maxlen is never below the length of a written      *)
(* line.                                                                   *)
C17_WritersSerialized ==
  /\ PaddedToLongest
  /\ \A k \in 1..Len(lines) :
       lines[k].flushed => maxlen >= Len(lines[k].text)

(* C18: a started session has exactly one output pass, of type combined    *)
(* and named "combined", created once before the buffer reset and before   *)
(* start, and a file output driver was given that same name.               *)
C18_OutputPass ==
  \A i \in Started :
    LET s == sessions[i]
    IN /\ s.passes = <<[name |-> "combined", type |-> "COMBINED"]>>
       /\ Before(s.events, "pass", "reset")
       /\ Before(s.events, "pass", "start")
       /\ s.output_driver = "file" => s.driver_pass = s.passes[1].name

(* C18 witness: a started session with a file output driver.               *)
C18_Witness ==
  \E i \in Started :
    sessions[i].output_driver = "file" /\ sessions[i].passes # <<>>

(* C19: a request for the "osl" shading system on a device that is not a   *)
(* CPU fails with "OSL shading system only works with CPU device" and      *)
(* constructs no Session, in the embedding adapter and in the standalone   *)
(* host; an unrecognised shading-system name is rejected.                  *)
C19_ShadingCrossCheck ==
  /\ (host = "ios" /\ call.op = "initialize"
        /\ call.args.shading_system = "osl" /\ call.args.filepath # ""
        /\ call.args.samples >= 0 /\ "METAL" \in available)
       => /\ err = "OSL shading system only works with CPU device"
          /\ sessions = <<>>
  /\ (host = "standalone" /\ call.op = "main" /\ ~LeavesEarly(call.args)
        /\ call.args.ssname = "osl" /\ call.args.devicename = "METAL"
        /\ "METAL" \in available)
       => /\ err = "OSL shading system only works with CPU device"
          /\ proc = Exited(1)
          /\ sessions = <<>>
  /\ (host = "standalone" /\ call.op = "main" /\ ~LeavesEarly(call.args)
        /\ call.args.ssname \notin {"svm", "osl"}
        /\ call.args.devicename \in available)
       => /\ err = "Unknown shading system"
          /\ proc = Exited(1)
          /\ sessions = <<>>

====
